---- MODULE Spec2Model ----
(***************************************************************************)
(* Model of collect_data.py: the five-mode key-handling state machine of   *)
(* main(), the undo stack of saved clip paths and the clip files on disk.  *)
(* One action is one iteration of the `while cap.isOpened()` loop: the     *)
(* frame read, the per-mode rendering step and the key handler.            *)
(***************************************************************************)
EXTENDS Integers, Sequences, FiniteSets, TLC

(* ---------------------------------------------------------------- bounds *)

\* most frames captured in one recording
MaxFrames == 2
\* most clip files the disk holds when a new one is saved
MaxFiles == 2
\* most saves between two count confirms
MaxSaves == 2
\* most clip files on disk in the runs that start from an empty directory,
\* and most frames of one recording in them
FreshFiles == 10
FreshFrames == 1
\* most characters in the text buffer in the runs that type any text
MaxText == 2

(* ------------------------------------------------------ program constants *)

STATE_INPUT_LABEL == 0
STATE_INPUT_COUNT == 1
STATE_IDLE        == 2
STATE_RECORDING   == 3
STATE_REVIEW      == 4

\* key codes as cv2.waitKey(1) & 0xFF reports them
KEY_ENTER     == 13
KEY_BACKSPACE == 8
KEY_DELETE    == 127
KEY_NONE      == 255

(* ------------------------------------------------------------ characters *)

Digits == <<"0", "1", "2", "3", "4", "5", "6", "7", "8", "9">>

\* the code point of a character (Python's ord), for the characters used
Ord(c) ==
    CASE c = " " -> 32
      [] c = "." -> 46
      [] c = "0" -> 48
      [] c = "1" -> 49
      [] c = "2" -> 50
      [] c = "3" -> 51
      [] c = "4" -> 52
      [] c = "5" -> 53
      [] c = "6" -> 54
      [] c = "7" -> 55
      [] c = "8" -> 56
      [] c = "9" -> 57
      [] c = "O" -> 79
      [] c = "Q" -> 81
      [] c = "U" -> 85
      [] c = "a" -> 97
      [] c = "m" -> 109
      [] c = "o" -> 111
      [] c = "p" -> 112
      [] c = "q" -> 113
      [] c = "u" -> 117
      [] c = "x" -> 120

\* str.isdigit() of one character
IsDigitChar(c) == Ord(c) >= 48 /\ Ord(c) <= 57

\* str.isdigit(): non-empty and every character a digit
IsDigit(s) == Len(s) > 0 /\ \A i \in 1..Len(s) : IsDigitChar(s[i])

\* int(s) of a digit string
RECURSIVE ParseInt(_)
ParseInt(s) ==
    IF Len(s) = 0 THEN 0
    ELSE 10 * ParseInt(SubSeq(s, 1, Len(s) - 1)) + (Ord(s[Len(s)]) - 48)

\* str(n) of a non-negative integer, as the f-string formats saved_count
RECURSIVE Str(_)
Str(n) ==
    IF n < 10 THEN <<Digits[n + 1]>>
    ELSE Append(Str(n \div 10), Digits[(n % 10) + 1])

\* str.strip(): leading and trailing blanks removed
RECURSIVE Strip(_)
Strip(s) ==
    IF Len(s) = 0 THEN s
    ELSE IF s[1] = " " THEN Strip(Tail(s))
    ELSE IF s[Len(s)] = " " THEN Strip(SubSeq(s, 1, Len(s) - 1))
    ELSE s

(* ------------------------------------------------------------ clip files *)

\* A clip file of a label directory is named {label}_{suffix}.mp4; within one
\* directory it is identified by its suffix, the part the glob's * matches.

\* the file name after the common {label}_ prefix
FileTail(suffix) == suffix \o <<".", "m", "p", "4">>

\* Python's string order on two file names of one directory
RECURSIVE StrLess(_, _)
StrLess(s, t) ==
    IF Len(t) = 0 THEN FALSE
    ELSE IF Len(s) = 0 THEN TRUE
    ELSE IF Ord(s[1]) # Ord(t[1]) THEN Ord(s[1]) < Ord(t[1])
    ELSE StrLess(Tail(s), Tail(t))

PathLess(a, b) == StrLess(FileTail(a), FileTail(b))

\* sorted(paths): the paths in ascending order of their names
RECURSIVE Sorted(_)
Sorted(S) ==
    IF S = {} THEN <<>>
    ELSE LET m == CHOOSE x \in S : \A y \in S \ {x} : PathLess(x, y)
         IN  <<m>> \o Sorted(S \ {m})

\* label_dir.glob(f"{label}_*.mp4"): the suffixes of the clips in a directory
Glob(dir) == DOMAIN dir

\* max(int(stem suffix) for p in existing if the suffix isdigit())
SetMax(S) == CHOOSE m \in S : \A y \in S : y <= m

NumericSuffixes(existing) ==
    {ParseInt(existing[i]) : i \in {j \in 1..Len(existing) : IsDigit(existing[j])}}

\* writer.write of every frame to fname, then release: the file holds the frames
WriteFile(dir, name, frames) ==
    [n \in (DOMAIN dir) \cup {name} |-> IF n = name THEN frames ELSE dir[n]]

\* last.unlink()
Unlink(dir, name) == [n \in (DOMAIN dir) \ {name} |-> dir[n]]

(* ----------------------------------------------------------------- input *)

\* the characters the model's user has on the keyboard
Chars == {" ", "0", "1", "2", "a", "o", "O", "q", "Q", "u", "U"}

\* chr(key) of a printable key
Chr(key) == CHOOSE c \in Chars : Ord(c) = key

\* the keys one poll of cv2.waitKey(1) & 0xFF can report
Keys == {KEY_ENTER, KEY_BACKSPACE, KEY_DELETE, KEY_NONE} \cup {Ord(c) : c \in Chars}

\* the labels the user types (a prefix of one of them is in the buffer)
Labels == {<<"a">>}

\* the clip counts the user types
CountTexts == {<<"0">>, <<"2">>, <<"1", "1">>}

IsPrefix(s, t) == Len(s) <= Len(t) /\ SubSeq(t, 1, Len(s)) = s

\* the text the user is willing to have in the buffer of a text-input state
Typable(st, s) ==
    \E t \in (IF st = STATE_INPUT_LABEL THEN Labels ELSE CountTexts) : IsPrefix(s, t)

\* the clips a label directory may hold before the program starts
InitNames == {<<"1">>, <<"2">>, <<"1", "0">>, <<"x">>}

\* the content of a clip that was on disk before the program started
OldClip == <<[n |-> 0, overlay |-> FALSE]>>

(* ----------------------------------------------------------------- state *)

VARIABLES
    pc,            \* where main() is: "start", "running", "exited", "no_camera", "crashed"
    held,          \* the resources acquired and not released
    state,         \* the mode, one of STATE_*
    text_buf,      \* the on-screen text buffer
    label,         \* the confirmed label
    target_count,  \* the clips wanted for the label
    saved_count,   \* the clips counted as saved for the label
    saved_files,   \* the undo stack: the paths (suffixes) saved or found, oldest first
    raw_frames,    \* the frames captured by the current recording
    review_frame,  \* the frozen frame shown in Review: <<>> is None
    disk,          \* DATA_DIR: label -> (suffix -> frames of the clip)
    op,            \* the branch of the key handler the last iteration took
    pre,           \* before that iteration: saved_count, saved_files, the mode, the
                   \* text buffer, whether the iteration before it saved a clip,
                   \* and the key that iteration polled
    sess           \* of the label being collected: the saves since its count was
                   \* confirmed, and whether it had no clip then and no undo since

vars == <<pc, held, state, text_buf, label, target_count, saved_count,
          saved_files, raw_frames, review_frame, disk, op, pre, sess>>

prog == [saved_count |-> saved_count, saved_files |-> saved_files,
         saved |-> (op = "save"), state |-> state, text_buf |-> text_buf,
         key |-> KEY_NONE]

\* the program state an iteration starts from, with the key it polls where
\* the key is text input (the two entry modes)
Polled(key) ==
    [prog EXCEPT !.key = IF state \in {STATE_INPUT_LABEL, STATE_INPUT_COUNT}
                         THEN key ELSE KEY_NONE]

\* the directory DATA_DIR / label
LabelDir == disk[label]

\* the clips of every label directory, as <<label, suffix>>
AllClips == {c \in Labels \X UNION {DOMAIN disk[l] : l \in Labels} : c[2] \in DOMAIN disk[c[1]]}

ClipsOnDisk == Cardinality(AllClips)

Init ==
    /\ pc = "start"
    /\ held = {}
    /\ state = STATE_INPUT_LABEL
    /\ text_buf = <<>>
    /\ label = <<>>
    /\ target_count = 0
    /\ saved_count = 0
    /\ saved_files = <<>>
    /\ raw_frames = <<>>
    /\ review_frame = <<>>
    /\ \E S \in SUBSET InitNames :
          disk = [l \in Labels |->
                    IF l = <<"a">> THEN [n \in S |-> OldClip] ELSE <<>>]
    /\ op = "init"
    /\ pre = prog
    /\ sess = [saves |-> 0, fresh |-> TRUE]

(* ------------------------------------------------------ handler pieces *)

\* existing = sorted(label_dir.glob(f"{label}_*.mp4"))
ExistingClips(dir) == Sorted(Glob(dir))

\* last_num = max(int(suffix) for p in existing if suffix.isdigit())
LastNum(existing) == SetMax(NumericSuffixes(existing))

\* the max() of an empty generator raises ValueError
ScanRaises(existing) == existing # <<>> /\ NumericSuffixes(existing) = {}

\* a resume that counts the clips found instead of reading the last number
ResumeCountByLen(existing) == Len(existing)

\* saved_count after the resume scan of a label directory
ResumeCount(existing) == IF existing = <<>> THEN 0 ELSE LastNum(existing)

\* a count confirm that forgets the clamp
ClampTargetNot(n) == n

\* target_count = int(text); if target_count < 1: target_count = 1
ClampTarget(n) == IF n < 1 THEN 1 ELSE n

\* text_buf[:-1]
DropLast(s) == IF Len(s) = 0 THEN s ELSE SubSeq(s, 1, Len(s) - 1)

\* fname = label_dir / f"{label}_{saved_count}.mp4", saved_count already incremented
ClipName(count) == Str(count)

\* the branch U takes: nothing to undo, the popped file deleted, or already gone
UndoBranch(files, dir) ==
    IF files = <<>> THEN "undo_empty"
    ELSE IF files[Len(files)] \in DOMAIN dir THEN "undo_deleted"
    ELSE "undo_gone"

\* saved_files after U: last = saved_files.pop()
UndoFiles(files) == IF files = <<>> THEN files ELSE SubSeq(files, 1, Len(files) - 1)

\* the label directory after U: last.unlink() if last.exists()
UndoDir(files, dir) ==
    IF UndoBranch(files, dir) = "undo_deleted" THEN Unlink(dir, files[Len(files)]) ELSE dir

\* an undo that forgets saved_count -= 1
UndoCountKept(count, files, dir) == count

\* an undo that decrements outside the `if saved_files`
UndoCountAlways(count, files, dir) == count - 1

\* an undo that decrements outside the `if last.exists()`
UndoCountPopped(count, files, dir) == IF files = <<>> THEN count ELSE count - 1

\* saved_count after U: decremented where the file was deleted
UndoCount(count, files, dir) ==
    IF UndoBranch(files, dir) = "undo_deleted" THEN count - 1 ELSE count

\* a handler that forgets raw_frames.clear()
ClearedNot(frames) == frames

\* raw_frames.clear()
Cleared(frames) == <<>>

\* a target check written > instead of >=
AfterSaveStrict(count, target) ==
    IF count > target THEN STATE_INPUT_LABEL ELSE STATE_IDLE

\* the mode after a save
AfterSave(count, target) ==
    IF count >= target THEN STATE_INPUT_LABEL ELSE STATE_IDLE

\* a digit test that an empty buffer passes
CountAcceptsEmpty(buf) == \A i \in 1..Len(Strip(buf)) : IsDigitChar(Strip(buf)[i])

\* Enter in InputCount is taken when the stripped buffer is a digit string
CountAccepts(buf) == IsDigit(Strip(buf))

\* a raw frame taken after the drawing (no copy before it)
RawFrameDrawn(k) == [n |-> k, overlay |-> TRUE]

\* raw = frame.copy() before any drawing: the k-th frame of a recording
RawFrame(k) == [n |-> k, overlay |-> FALSE]

\* the frame after the landmarks and the bars were drawn on it
Shown(f) == [f EXCEPT !.overlay = TRUE]

\* a rendering step that forgets raw_frames.append(raw)
CapturedNothing == raw_frames

\* raw_frames after the rendering step of one iteration
Captured ==
    IF state = STATE_RECORDING
    THEN Append(raw_frames, RawFrame(Len(raw_frames) + 1))
    ELSE raw_frames

IsQuit(key) == key = Ord("q") \/ key = Ord("Q")

IsText(st) == st \in {STATE_INPUT_LABEL, STATE_INPUT_COUNT}

\* a printable test that forgets key != ord(' ')
IsPrintableOrSpace(key) == 32 <= key /\ key < 127

IsPrintable(key) == 32 <= key /\ key < 127 /\ key # Ord(" ")

\* an iteration that reads a frame, shows it and handles a key other than quit
Iteration(key, name) ==
    /\ pc = "running"
    /\ ~IsQuit(key)
    /\ state = STATE_RECORDING => Len(raw_frames) < MaxFrames
    /\ held' = held \cup {"window"}
    /\ op' = name
    /\ pre' = Polled(key)

(* --------------------------------------------------------------- actions *)

\* cap = cv2.VideoCapture(0) opened; the hand detector is created
OpenCamera ==
    /\ pc = "start"
    /\ pc' = "running"
    /\ held' = {"camera", "detector"}
    /\ UNCHANGED <<state, text_buf, label, target_count, saved_count, saved_files,
                   raw_frames, review_frame, disk, op, pre, sess>>

\* not cap.isOpened(): "Cannot open camera", return
OpenFails ==
    /\ pc = "start"
    /\ pc' = "no_camera"
    /\ op' = "open_fail"
    /\ UNCHANGED <<held, state, text_buf, label, target_count, saved_count,
                   saved_files, raw_frames, review_frame, disk, pre, sess>>

\* cap.read() fails: break, then the shutdown
ReadFails ==
    /\ pc = "running"
    /\ pc' = "exited"
    /\ held' = {}
    /\ op' = "read_fail"
    /\ pre' = prog
    /\ UNCHANGED <<state, text_buf, label, target_count, saved_count, saved_files,
                   raw_frames, review_frame, disk, sess>>

\* Q in any mode: break, then the shutdown
Quit(key) ==
    /\ pc = "running"
    /\ IsQuit(key)
    /\ raw_frames' = Captured
    /\ pc' = "exited"
    /\ held' = {}
    /\ op' = "quit"
    /\ pre' = Polled(key)
    /\ UNCHANGED <<state, text_buf, label, target_count, saved_count, saved_files,
                   review_frame, disk, sess>>

\* Enter in InputLabel with a non-blank buffer: the resume scan
LabelConfirm(key) ==
    /\ Iteration(key, "label_confirm")
    /\ key = KEY_ENTER
    /\ state = STATE_INPUT_LABEL
    /\ Strip(text_buf) # <<>>
    /\ Strip(text_buf) \in Labels
    /\ LET lbl      == Strip(text_buf)
           existing == ExistingClips(disk[lbl])
       IN  /\ label' = lbl
           /\ text_buf' = <<>>
           /\ IF ScanRaises(existing)
              THEN /\ saved_count' = 0
                   /\ saved_files' = <<>>
                   /\ pc' = "crashed"
                   /\ state' = state
              ELSE /\ saved_count' = ResumeCount(existing)
                   /\ saved_files' = existing
                   /\ pc' = pc
                   /\ state' = STATE_INPUT_COUNT
    /\ sess' = [saves |-> 0, fresh |-> TRUE]
    /\ UNCHANGED <<target_count, raw_frames, review_frame, disk>>

\* Enter in InputCount with a digit buffer
CountConfirm(key) ==
    /\ Iteration(key, "count_confirm")
    /\ key = KEY_ENTER
    /\ state = STATE_INPUT_COUNT
    /\ CountAccepts(text_buf)
    /\ target_count' = ClampTarget(ParseInt(Strip(text_buf)))
    /\ text_buf' = <<>>
    /\ state' = STATE_IDLE
    /\ sess' = [saves |-> 0, fresh |-> (saved_count = 0)]
    /\ UNCHANGED <<pc, label, saved_count, saved_files, raw_frames, review_frame, disk>>

\* Backspace or Delete in a text-input mode
Backspace(key) ==
    /\ Iteration(key, "backspace")
    /\ IsText(state)
    /\ key \in {KEY_BACKSPACE, KEY_DELETE}
    /\ text_buf' = DropLast(text_buf)
    /\ UNCHANGED <<pc, state, label, target_count, saved_count, saved_files,
                   raw_frames, review_frame, disk, sess>>

\* a printable key in a text-input mode that the mode accepts; typed says
\* whether the user types this key now
TypeCharIf(key, typed) ==
    /\ Iteration(key, "type")
    /\ IsText(state)
    /\ IsPrintable(key)
    /\ state = STATE_INPUT_COUNT => IsDigitChar(Chr(key))
    /\ typed
    /\ text_buf' = Append(text_buf, Chr(key))
    /\ UNCHANGED <<pc, state, label, target_count, saved_count, saved_files,
                   raw_frames, review_frame, disk, sess>>

\* the user types the texts of Labels and CountTexts
TypeChar(key) == TypeCharIf(key, Typable(state, Append(text_buf, Chr(key))))

\* SPACE in Idle
StartRecording(key) ==
    /\ Iteration(key, "start")
    /\ state = STATE_IDLE
    /\ key = Ord(" ")
    /\ raw_frames' = Cleared(raw_frames)
    /\ state' = STATE_RECORDING
    /\ UNCHANGED <<pc, text_buf, label, target_count, saved_count, saved_files,
                   review_frame, disk, sess>>

\* U in Idle
Undo(key) ==
    /\ Iteration(key, UndoBranch(saved_files, LabelDir))
    /\ state = STATE_IDLE
    /\ key \in {Ord("u"), Ord("U")}
    /\ saved_files' = UndoFiles(saved_files)
    /\ saved_count' = UndoCount(saved_count, saved_files, LabelDir)
    /\ disk' = [disk EXCEPT ![label] = UndoDir(saved_files, @)]
    /\ sess' = [sess EXCEPT !.fresh = FALSE]
    /\ UNCHANGED <<pc, state, text_buf, label, target_count, raw_frames, review_frame>>

\* SPACE in Recording
StopRecording(key) ==
    /\ Iteration(key, "stop")
    /\ state = STATE_RECORDING
    /\ key = Ord(" ")
    /\ raw_frames' = Captured
    /\ state' = STATE_REVIEW
    /\ review_frame' = <<Shown(RawFrame(Len(raw_frames) + 1))>>
    /\ UNCHANGED <<pc, text_buf, label, target_count, saved_count, saved_files,
                   disk, sess>>

\* O in Review, while the disk holds fewer than quota clips or the clip's
\* name is taken already
SaveWithin(key, quota) ==
    /\ Iteration(key, "save")
    /\ state = STATE_REVIEW
    /\ key \in {Ord("o"), Ord("O")}
    /\ sess.saves < MaxSaves
    /\ LET count == saved_count + 1
           fname == ClipName(count)
       IN  /\ fname \in DOMAIN LabelDir \/ ClipsOnDisk < quota
           /\ saved_count' = count
           /\ disk' = [disk EXCEPT ![label] = WriteFile(@, fname, raw_frames)]
           /\ saved_files' = Append(saved_files, fname)
           /\ raw_frames' = Cleared(raw_frames)
           /\ review_frame' = <<>>
           /\ state' = AfterSave(count, target_count)
           /\ text_buf' = IF count >= target_count THEN <<>> ELSE text_buf
    /\ sess' = [sess EXCEPT !.saves = @ + 1]
    /\ UNCHANGED <<pc, label, target_count>>

Save(key) == SaveWithin(key, MaxFiles)

\* SPACE in Review
Discard(key) ==
    /\ Iteration(key, "discard")
    /\ state = STATE_REVIEW
    /\ key = Ord(" ")
    /\ raw_frames' = Cleared(raw_frames)
    /\ review_frame' = <<>>
    /\ state' = STATE_IDLE
    /\ UNCHANGED <<pc, text_buf, label, target_count, saved_count, saved_files,
                   disk, sess>>

\* the key handler of each mode has a branch for the key
Handled(st, buf, key) ==
    \/ IsText(st) /\ key = KEY_ENTER
         /\ \/ st = STATE_INPUT_LABEL /\ Strip(buf) # <<>>
            \/ st = STATE_INPUT_COUNT /\ CountAccepts(buf)
    \/ IsText(st) /\ key \in {KEY_BACKSPACE, KEY_DELETE}
    \/ IsText(st) /\ key \notin {KEY_ENTER, KEY_BACKSPACE, KEY_DELETE} /\ IsPrintable(key)
         /\ (st = STATE_INPUT_COUNT => IsDigitChar(Chr(key)))
    \/ st = STATE_IDLE /\ key \in {Ord(" "), Ord("u"), Ord("U")}
    \/ st = STATE_RECORDING /\ key = Ord(" ")
    \/ st = STATE_REVIEW /\ key \in {Ord(" "), Ord("o"), Ord("O")}

\* the branch a key falls through: Enter that confirms nothing, a character
\* the count buffer rejects, or a key the mode has no branch for
IgnoredBranch(st, key) ==
    IF IsText(st) /\ key = KEY_ENTER THEN "enter_ignored"
    ELSE IF st = STATE_INPUT_COUNT /\ IsPrintable(key) /\ ~IsDigitChar(Chr(key))
         THEN "char_rejected"
    ELSE "ignored"

\* any other key, or none: only the frame of a recording is captured
KeyIgnored(key) ==
    /\ Iteration(key, IgnoredBranch(state, key))
    /\ ~Handled(state, text_buf, key)
    /\ raw_frames' = Captured
    /\ UNCHANGED <<pc, state, text_buf, label, target_count, saved_count,
                   saved_files, review_frame, disk, sess>>

Next ==
    \/ OpenCamera
    \/ OpenFails
    \/ ReadFails
    \/ \E key \in Keys :
          \/ Quit(key)
          \/ LabelConfirm(key)
          \/ CountConfirm(key)
          \/ Backspace(key)
          \/ TypeChar(key)
          \/ StartRecording(key)
          \/ Undo(key)
          \/ StopRecording(key)
          \/ Save(key)
          \/ Discard(key)
          \/ KeyIgnored(key)

Spec == Init /\ [][Next]_vars

(* ------------------------------- runs that start from an empty directory *)

\* the label directory does not exist or holds no clip when the program starts
FreshInit == Init /\ \A l \in Labels : DOMAIN disk[l] = {}

\* the clips of a directory are 1..n for some n
Gapless(dir) == DOMAIN dir = {Str(k) : k \in 1..Cardinality(DOMAIN dir)}

\* recordings of at most FreshFrames frames; a run is followed up to the first
\* state whose clips are not 1..n
FreshStep ==
    /\ Len(Captured) <= FreshFrames
    /\ \A l \in Labels : Gapless(disk[l])

\* the same loop, with room for FreshFiles clips
FreshNext ==
    \/ OpenCamera
    \/ OpenFails
    \/ FreshStep /\ ReadFails
    \/ \E key \in Keys :
          \/ FreshStep /\ Quit(key)
          \/ FreshStep /\ LabelConfirm(key)
          \/ FreshStep /\ CountConfirm(key)
          \/ FreshStep /\ Backspace(key)
          \/ FreshStep /\ TypeChar(key)
          \/ FreshStep /\ StartRecording(key)
          \/ FreshStep /\ Undo(key)
          \/ FreshStep /\ StopRecording(key)
          \/ FreshStep /\ SaveWithin(key, FreshFiles)
          \/ FreshStep /\ Discard(key)
          \/ FreshStep /\ KeyIgnored(key)

FreshSpec == FreshInit /\ [][FreshNext]_vars

(* ------------------------------------------------ runs that type any text *)

\* the user types any text of at most MaxText characters
TypeAnyChar(key) == TypeCharIf(key, Len(text_buf) < MaxText)

\* the same loop, for a user who types any keys in the two entry modes (and
\* confirms a label of Labels) but records nothing
TextNext ==
    \/ OpenCamera
    \/ OpenFails
    \/ ReadFails
    \/ \E key \in Keys :
          \/ Quit(key)
          \/ LabelConfirm(key)
          \/ CountConfirm(key)
          \/ Backspace(key)
          \/ TypeAnyChar(key)
          \/ KeyIgnored(key)

TextSpec == FreshInit /\ [][TextNext]_vars

(* ---------------------------------------------------------------- claims *)

UndoOps == {"undo_empty", "undo_deleted", "undo_gone"}

\* the clips of a directory whose suffix is a number
Numbered(dir) == {f \in DOMAIN dir : IsDigit(f)}

\* the largest n such that the clips 1..n all exist
Contiguous(dir) ==
    SetMax({n \in 0..Cardinality(DOMAIN dir) : \A k \in 1..n : Str(k) \in DOMAIN dir})

\* C1: after every completed key-handling transition savedCount equals the
\* number of entries of savedFilePaths.
SavedCountIsStackSize == pc = "running" => saved_count = Len(saved_files)

\* C2 as stated: CountEntry is entered with savedCount equal to the largest n
\* such that the clips 1..n of the label all exist (0 if there is none).
ResumeAtContiguous ==
    (pc = "running" /\ state = STATE_INPUT_COUNT) => saved_count = Contiguous(LabelDir)

\* C2 amended: CountEntry is entered with savedCount equal to the highest
\* number found among the label's clips, gaps or not, and 0 if the directory
\* holds no clip.
ResumeAtHighest ==
    (pc = "running" /\ state = STATE_INPUT_COUNT) =>
        IF DOMAIN LabelDir = {} THEN saved_count = 0
        ELSE /\ \E f \in Numbered(LabelDir) : ParseInt(f) = saved_count
             /\ \A f \in Numbered(LabelDir) : ParseInt(f) <= saved_count

\* a label was confirmed whose directory has clips but not clip 1
ResumedOverGap ==
    /\ op = "label_confirm"
    /\ state = STATE_INPUT_COUNT
    /\ saved_count > 0
    /\ Str(1) \notin DOMAIN LabelDir

\* C3: the numeric indices of the paths in savedFilePaths are strictly
\* increasing from first to last.
StackStrictlyIncreasing ==
    \A i, j \in 1..Len(saved_files) :
        (i < j /\ IsDigit(saved_files[i]) /\ IsDigit(saved_files[j]))
            => ParseInt(saved_files[i]) < ParseInt(saved_files[j])

\* C4: every save writes the pending frames, in arrival order, to the new file
\* {label}_{savedCount+1}.mp4, which did not exist before the save; no clip
\* already on disk is overwritten.
SaveWritesNewFile ==
    [][op' = "save" =>
          LET name == Str(saved_count + 1)
          IN  /\ name \notin DOMAIN disk[label]
              /\ DOMAIN disk'[label] = (DOMAIN disk[label]) \cup {name}
              /\ disk'[label][name] = raw_frames
              /\ \A f \in DOMAIN disk[label] : disk'[label][f] = disk[label][f]]_vars

\* C5: undo is the exact inverse of the most recent save: a save that leads to
\* Idle, followed by undo, restores savedCount and savedFilePaths to their
\* values before the save.
UndoInvertsSave ==
    [][(op = "save" /\ state = STATE_IDLE /\ op' \in UndoOps) =>
          /\ op' = "undo_deleted"
          /\ saved_count' = pre.saved_count
          /\ saved_files' = pre.saved_files]_vars

\* a clip was saved and the next key undid it
SavedThenUndone == op = "undo_deleted" /\ pre.saved

\* C6: an undo in Idle with savedFilePaths non-empty deletes the existing clip
\* of the label with the highest index, decrements savedCount by exactly one
\* and leaves the mode Idle.
UndoDeletesNewest ==
    [][(op' \in UndoOps /\ saved_files # <<>>) =>
          /\ Numbered(LabelDir) # {}
          /\ \E f \in Numbered(LabelDir) :
                /\ \A g \in Numbered(LabelDir) : ParseInt(g) <= ParseInt(f)
                /\ disk'[label] = Unlink(LabelDir, f)
          /\ saved_count' = saved_count - 1
          /\ state' = STATE_IDLE]_vars

UndoOfNothingIsNoOp ==
    [][(op' \in UndoOps /\ saved_files = <<>>) =>
          /\ op' = "undo_empty"
          /\ UNCHANGED <<saved_count, saved_files, state, disk>>]_vars

\* undo was requested in Idle with an empty stack
UndoneNothing == op = "undo_empty" /\ state = STATE_IDLE /\ saved_files = <<>>

\* C9: a discard in Review changes neither savedCount, savedFilePaths nor any
\* file on disk; it clears the pending frames and moves the mode to Idle.
DiscardKeepsClips ==
    [][op' = "discard" =>
          /\ state = STATE_REVIEW
          /\ UNCHANGED <<saved_count, saved_files, disk, label, target_count, text_buf>>
          /\ raw_frames' = <<>>
          /\ state' = STATE_IDLE]_vars

\* a recording was discarded while clips were on the undo stack
DiscardedWithClips == op = "discard" /\ saved_files # <<>> /\ state = STATE_IDLE

\* C10 as stated: a save returns to LabelEntry exactly when savedCount reaches
\* targetCount, and with target count N that is after N saves (stated for the
\* saves that start below the target).
ReturnsAfterTargetSaves ==
    (op = "save" /\ pre.saved_count < target_count) =>
        /\ state = IF saved_count >= target_count THEN STATE_INPUT_LABEL ELSE STATE_IDLE
        /\ state = STATE_INPUT_LABEL => (text_buf = <<>> /\ sess.saves = target_count)

\* C10 amended: a save moves to Idle unless the incremented savedCount is at
\* least targetCount, and then to LabelEntry with the text buffer empty; that
\* is after N saves when the label had no clip at its count confirm and no
\* undo was requested.
ReturnsWhenTargetReached ==
    op = "save" =>
        /\ state = IF saved_count >= target_count THEN STATE_INPUT_LABEL ELSE STATE_IDLE
        /\ state = STATE_INPUT_LABEL =>
              (text_buf = <<>> /\ (sess.fresh => sess.saves = target_count))

\* target 2 was reached by the second save of a label that had no clip
TargetTwoReached ==
    /\ op = "save"
    /\ state = STATE_INPUT_LABEL
    /\ target_count = 2
    /\ sess.fresh
    /\ sess.saves = 2

\* C11: a label confirm always moves to CountEntry with savedCount and
\* savedFilePaths taken from the scan of the label's directory, whatever the
\* directory holds, and never aborts the session.
LabelConfirmReachesCountEntry ==
    op = "label_confirm" =>
        /\ pc = "running"
        /\ state = STATE_INPUT_COUNT
        /\ saved_files = ExistingClips(LabelDir)

\* C12: savedCount is never negative, so no clip is written with an index
\* below 1.
SavedCountNeverNegative ==
    /\ saved_count >= 0
    /\ op = "save" => saved_count >= 1

\* C13: in a run that starts from an empty label directory the clips on disk
\* are exactly 1..n for some n, without a gap.
ClipsNumberedWithoutGap ==
    \A l \in Labels : Gapless(disk[l])

\* C14: a count confirm moves to Idle with targetCount at least 1, whatever
\* digits were typed, and targetCount is at least 1 in every Idle, Recording and
\* Review state.
TargetAtLeastOne ==
    /\ state \in {STATE_IDLE, STATE_RECORDING, STATE_REVIEW} => target_count >= 1
    /\ op = "count_confirm" => (state = STATE_IDLE /\ target_count >= 1)

\* the count "0" was confirmed and became the target 1
CountZeroClamped ==
    /\ op = "count_confirm"
    /\ pre.text_buf = <<"0">>
    /\ state = STATE_IDLE
    /\ target_count = 1

\* C15: Enter on an empty or blank buffer in LabelEntry or CountEntry leaves
\* the mode, the label, targetCount, savedCount and savedFilePaths unchanged,
\* and a non-digit key in CountEntry (a key that reaches the text branches:
\* Q and q are the quit signal in every mode) leaves the text buffer and every
\* other field unchanged.
InvalidInputIgnored ==
    [][(pc = "running" /\ op' # "read_fail" /\ IsText(state)) =>
          /\ (pre'.key = KEY_ENTER /\ Strip(text_buf) = <<>>) =>
                UNCHANGED <<pc, state, label, target_count, saved_count, saved_files>>
          /\ (state = STATE_INPUT_COUNT /\ IsPrintable(pre'.key)
                /\ ~IsQuit(pre'.key) /\ ~IsDigitChar(Chr(pre'.key))) =>
                UNCHANGED <<pc, state, text_buf, label, target_count, saved_count,
                            saved_files, raw_frames, review_frame, disk>>]_vars

\* Enter was pressed on the empty count buffer of a label that has clips
EmptyCountRejected ==
    /\ op = "enter_ignored"
    /\ pre.key = KEY_ENTER
    /\ pre.state = STATE_INPUT_COUNT
    /\ pre.text_buf = <<>>
    /\ state = STATE_INPUT_COUNT
    /\ saved_count > 0

\* C16 as stated: in LabelEntry every printable character key is appended to
\* the text buffer, in CountEntry every digit key, and backspace removes
\* exactly the last character (nothing from an empty buffer).
EveryPrintableKeyTyped ==
    /\ (pre.state = STATE_INPUT_LABEL /\ 32 <= pre.key /\ pre.key < 127) =>
          text_buf = Append(pre.text_buf, Chr(pre.key))
    /\ (pre.state = STATE_INPUT_COUNT /\ 32 <= pre.key /\ pre.key < 127
          /\ IsDigitChar(Chr(pre.key))) =>
          text_buf = Append(pre.text_buf, Chr(pre.key))
    /\ (IsText(pre.state) /\ pre.key \in {KEY_BACKSPACE, KEY_DELETE}) =>
          text_buf = DropLast(pre.text_buf)

\* C16 amended: in LabelEntry every printable character key other than space,
\* Q and q is appended to the text buffer, in CountEntry every digit key;
\* space leaves the buffer as it is, Q and q end the session with the buffer
\* as it is; backspace removes exactly the last character (nothing from an
\* empty buffer).
PrintableKeysButSpaceAndQuitTyped ==
    /\ (pre.state = STATE_INPUT_LABEL /\ 32 < pre.key /\ pre.key < 127
          /\ pre.key \notin {Ord("q"), Ord("Q")}) =>
          text_buf = Append(pre.text_buf, Chr(pre.key))
    /\ (pre.state = STATE_INPUT_COUNT /\ 32 < pre.key /\ pre.key < 127
          /\ IsDigitChar(Chr(pre.key))) =>
          text_buf = Append(pre.text_buf, Chr(pre.key))
    /\ (IsText(pre.state) /\ pre.key = 32) =>
          (text_buf = pre.text_buf /\ state = pre.state /\ pc = "running")
    /\ (IsText(pre.state) /\ pre.key \in {Ord("q"), Ord("Q")}) =>
          (text_buf = pre.text_buf /\ pc = "exited")
    /\ (IsText(pre.state) /\ pre.key \in {KEY_BACKSPACE, KEY_DELETE}) =>
          text_buf = DropLast(pre.text_buf)

\* a second character was typed into a label, and the two are not a label of
\* Labels
TwoCharactersTyped ==
    /\ op = "type"
    /\ pre.state = STATE_INPUT_LABEL
    /\ pre.text_buf = <<"u">>
    /\ text_buf = <<"u", "o">>

\* C17: no terminal state (quit, failed frame read, camera not opened, or any
\* other end of the program) is reached with the camera, the window or the
\* hand detector still held.
NothingHeldAtExit == pc \in {"exited", "no_camera", "crashed"} => held = {}

\* C18: every frame in the raw frame buffer and every frame of every clip file
\* is a captured frame without landmarks or bars drawn on it; the frozen review
\* frame, which has them, is in neither.
OnlyRawFramesPersisted ==
    /\ \A i \in 1..Len(raw_frames) : ~raw_frames[i].overlay
    /\ \A l \in Labels : \A f \in DOMAIN disk[l] :
          \A i \in 1..Len(disk[l][f]) : ~disk[l][f][i].overlay
    /\ \A i \in 1..Len(review_frame) : review_frame[i].overlay

\* a recording of two frames was reviewed and saved
ReviewedClipSaved ==
    /\ op = "save"
    /\ \E f \in DOMAIN LabelDir :
          /\ Len(LabelDir[f]) = 2
          /\ LabelDir[f][1].n = 1
          /\ LabelDir[f][2].n = 2

\* C19 as stated: the raw frame buffer is empty immediately after the stop
\* signal, and after a save or a discard.
BufferEmptyAfterStop ==
    op \in {"stop", "save", "discard"} => raw_frames = <<>>

\* C19 amended: the raw frame buffer is cleared when a recording starts and on
\* save or discard; the stop signal does not clear it: in Review it holds the
\* frames of the recording, the frame of the stop iteration included.
BufferKeptUntilSaveOrDiscard ==
    /\ op \in {"start", "save", "discard"} => raw_frames = <<>>
    /\ op = "stop" => (state = STATE_REVIEW /\ raw_frames # <<>>)
    /\ (pc = "running" /\ state = STATE_REVIEW) => raw_frames # <<>>

\* a recording was stopped with two frames in the buffer
StoppedWithFrames ==
    /\ op = "stop"
    /\ state = STATE_REVIEW
    /\ Len(raw_frames) = 2

\* C20: in every Idle, Recording and Review state savedCount is below
\* targetCount.
BelowTargetWhileCollecting ==
    (pc = "running" /\ state \in {STATE_IDLE, STATE_RECORDING, STATE_REVIEW}) =>
        saved_count < target_count

====
